---- MODULE Spec2Model ----
(***************************************************************************)
(* Route chain model of the star map editor (core/routes.py, RouteData).   *)
(* A route is a record; its system_chain field is None or a reference to a *)
(* list object, so that in-place list mutation and sharing are visible.    *)
(***************************************************************************)
EXTENDS Integers, Sequences, FiniteSets, TLC

\* ---------------------------------------------------------------- bounds
\* the editing session (Spec): systems, chain length and route objects
NumSys == 2
MaxLen == 3
MaxRoutes == 2
\* drawn inputs of the single-operation specifications
BigSys == 3
BigLen == 4
NumPoints == 1
MaxCps == 1
\* drawn inputs of merges: few systems and long chains, more systems and
\* shorter chains
PairSys == 3
PairLen == 4
WideSys == 4
WideLen == 3
\* the scene of the path and segment queries: systems, chain length, shape
\* points, the coordinates 0..GridMax and the thresholds 0..MaxThreshold
PathSys == 3
PathLen == 3
PathCps == 2
GridMax == 1
MaxThreshold == 1
\* the editor session: systems, chain length, route objects ever made, groups
EdSys == 3
EdLen == 3
EdRoutes == 3
MaxGroups == 2
\* the systems of the projects that are saved and opened
ItemSys == 2

None == 0

\* what a caller may pass: system ids, chain length cap, route object cap,
\* shape points
\* mlen caps the length of a merged chain
Session ==
    [sys |-> 1..NumSys, len |-> MaxLen, mlen |-> MaxLen, cap |-> MaxRoutes,
     pts |-> {}, cps |-> 0]
Drawn ==
    [sys |-> 1..BigSys, len |-> BigLen, mlen |-> 2 * BigLen, cap |-> 3,
     pts |-> 1..NumPoints, cps |-> MaxCps]
\* one route object, edited in place
Single == [Drawn EXCEPT !.cap = 1]
\* the editing session with room for one more route object
Owned == [Session EXCEPT !.cap = MaxRoutes + 1]
\* two routes of an opened project, with shape points, and room for the
\* merged route
Asked ==
    [Session EXCEPT !.cap = MaxRoutes + 1, !.mlen = 2 * MaxLen,
                    !.pts = 1..NumPoints, !.cps = MaxCps]
\* systems that are dragged and deleted while routes are drawn and edited;
\* pts is the place a system is dropped at
Stage ==
    [sys |-> 1..EdSys, len |-> EdLen, mlen |-> EdLen, cap |-> MaxRoutes,
     pts |-> {<<0, 0>>}, cps |-> 0]
\* routes that are drawn, deleted, split and merged between the systems of a
\* project that is saved and opened
Items ==
    [sys |-> 1..ItemSys, len |-> EdLen, mlen |-> EdLen, cap |-> EdRoutes,
     pts |-> {}, cps |-> 0]
\* the routes, with shape points, of a project that is saved and opened
\* while systems are deleted and routes are grouped
Filed ==
    [sys |-> 1..ItemSys, len |-> EdLen, mlen |-> EdLen, cap |-> MaxRoutes,
     pts |-> 1..NumPoints, cps |-> MaxCps]
\* routes drawn with shape points and then edited
Shaped ==
    [sys |-> 1..EdSys, len |-> EdLen, mlen |-> EdLen, cap |-> MaxRoutes,
     pts |-> 1..NumPoints, cps |-> MaxCps]
\* routes drawn click by click, with shape points
Sketch == [Drawn EXCEPT !.cap = MaxRoutes]
\* two routes to merge, without shape points
Pair ==
    [sys |-> 1..PairSys, len |-> PairLen, mlen |-> 2 * PairLen, cap |-> 3,
     pts |-> {}, cps |-> 0]

Wide ==
    [sys |-> 1..WideSys, len |-> WideLen, mlen |-> 2 * WideLen, cap |-> 3,
     pts |-> {}, cps |-> 0]

\* the editor works on routes without shape points; a merged chain may be
\* one longer than an edited one
Editor ==
    [sys |-> 1..EdSys, len |-> EdLen, mlen |-> EdLen + 1, cap |-> EdRoutes,
     pts |-> {}, cps |-> 0]

\* points of the scene, <<x, y>>
Grid == (0..GridMax) \X (0..GridMax)

\* one route item with shape points, and one without
Paths ==
    [sys |-> 1..PathSys, len |-> PathLen, mlen |-> PathLen, cap |-> 1,
     pts |-> Grid, cps |-> PathCps]
Hits == [Paths EXCEPT !.pts = {}, !.cps = 0]

\* list objects: one per route object at most
Refs == 1..(MaxRoutes + EdRoutes)

\* the RouteData objects and their chain lists, and the last call made
VARIABLES routes, heap, last
\* the editor: project.routes, project.route_groups, the CTRL+click
\* selection and the route items of the scene, each with the path it shows
VARIABLES project_routes, route_groups, routes_selected_for_group, route_items
\* the names of the route groups
VARIABLES route_group_names
\* the project file on disk
VARIABLES file
\* the scene: the position source, the path of the route item and the result
\* of the segment query
VARIABLES system_items, path, closest_segment

\* the mode of the editor, the route being drawn in the view and the editor's
\* own route creation state
VARIABLES current_mode, route_drawing_active, route_drawing_start_system_id,
          route_drawing_points, route_creation_start_system_id

editor == <<project_routes, route_groups, routes_selected_for_group,
            route_items, route_group_names>>
scene == <<system_items, path, closest_segment>>
view == <<current_mode, route_drawing_active, route_drawing_start_system_id,
          route_drawing_points, route_creation_start_system_id>>
vars == <<routes, heap, last, editor, scene, view, file>>

\* ------------------------------------------------------- python list helpers
\* sequences of length 0..n over S
SeqsUpTo(S, n) == UNION {[1..k -> S] : k \in 0..n}

Reverse(s) == [i \in 1..Len(s) |-> s[Len(s) + 1 - i]]

\* s[a:b] with 0-based non-negative a, b (b clipped to len)
Slice(s, a, b) ==
    LET hi == IF b > Len(s) THEN Len(s) ELSE b
    IN  IF a >= hi THEN <<>> ELSE [i \in 1..(hi - a) |-> s[a + i]]

\* list.index(x): 0-based index of the first occurrence, -1 when absent
PyIndex(s, x) ==
    IF \E i \in 1..Len(s) : s[i] = x
    THEN (CHOOSE i \in 1..Len(s) : s[i] = x /\ \A j \in 1..(i - 1) : s[j] # x) - 1
    ELSE -1

\* list.insert that puts x after the element at index
PyInsert_After(s, index, x) ==
    LET n == Len(s)
        i0 == IF index < 0 THEN index + n ELSE index
        i == IF i0 < 0 THEN 0 ELSE IF i0 >= n THEN n ELSE i0 + 1
    IN  Slice(s, 0, i) \o <<x>> \o Slice(s, i, n)

\* list.insert(index, x): negative indexes count from the end, all are clamped
PyInsert(s, index, x) ==
    LET n == Len(s)
        i0 == IF index < 0 THEN index + n ELSE index
        i == IF i0 < 0 THEN 0 ELSE IF i0 > n THEN n ELSE i0
    IN  Slice(s, 0, i) \o <<x>> \o Slice(s, i, n)

\* list.pop(index) is legal for -len <= index < len
PyPopOk(s, index) == index < Len(s) /\ index >= 0 - Len(s)

PyPop(s, index) ==
    LET n == Len(s)
        i == IF index < 0 THEN index + n ELSE index
    IN  Slice(s, 0, i) \o Slice(s, i + 1, n)

\* list.remove that drops the last occurrence
PyRemove_Last(s, x) ==
    PyPop(s, Len(s) - 1 - PyIndex(Reverse(s), x))

\* list.remove(x): drops the first occurrence
PyRemove(s, x) == PyPop(s, PyIndex(s, x))

\* ------------------------------------------------------------ RouteData
\* a name is the sequence of the pieces it was put together from
RouteData(id, name, start, end, cps, chain) ==
    [id |-> id, name |-> name, start_system_id |-> start,
     end_system_id |-> end, control_points |-> cps, system_chain |-> chain]

\* the names a caller gives to a route
Names == {<<"R">>}

\* f"{self.name} (2)": the name of the second part of a split, no prefix given
SplitName(name) == name \o <<"(2)">>

\* f"{route1.name} + {route2.name}": the name of a merged route, none given
MergedName(name1, name2) == name1 \o <<"+">> \o name2

\* an optional control_points argument: None, or a list of points
CpsInputs(u) ==
    {[none |-> TRUE, pts |-> <<>>]}
        \cup {[none |-> FALSE, pts |-> p] : p \in SeqsUpTo(u.pts, u.cps)}

NoCps == [none |-> FALSE, pts |-> <<>>]

\* create_new: a new id, control_points or [], no system_chain
create_new(id, name, start, end, cps) ==
    RouteData(id, name, start, end,
              IF cps.none \/ Len(cps.pts) = 0 THEN <<>> ELSE cps.pts, None)

\* get_system_chain: the stored list when it is truthy, else a new [start, end]
HasChain(rt, hp) == rt.system_chain # None /\ Len(hp[rt.system_chain]) > 0

get_system_chain(rt, hp) ==
    IF HasChain(rt, hp) THEN hp[rt.system_chain]
    ELSE <<rt.start_system_id, rt.end_system_id>>

Chain(i) == get_system_chain(routes[i], heap)

\* references held by the routes of rs other than route i
UsedRefs(rs, i) == {rs[j].system_chain : j \in (1..Len(rs)) \ {i}} \ {None}

\* a list object nobody else holds: the route's own cell when free
NewRef(rs, i) ==
    LET free == Refs \ UsedRefs(rs, i)
    IN  IF i \in free THEN i
        ELSE CHOOSE h \in free : \A g \in free : h <= g

\* list objects no route refers to are gone
Collect(rs, hp) ==
    [h \in Refs |-> IF h \in UsedRefs(rs, 0) THEN hp[h] ELSE <<>>]

\* the list object get_system_chain hands out for route i: the stored one, or
\* a new one
ChainRef(rs, hp, i) ==
    IF HasChain(rs[i], hp) THEN rs[i].system_chain ELSE NewRef(rs, i)

\* the length check one too low
ChainRejected_OneTooLow(chain) == Len(chain) < 1

\* set_system_chain rejects chains of fewer than two systems
ChainRejected(chain) == Len(chain) < 2

\* set_system_chain that updates the start and forgets the end
StoreChain_StaleEnd(rt, ref, chain) ==
    [rt EXCEPT !.system_chain = ref,
               !.start_system_id = chain[1]]

\* set_system_chain body after the length check: keep the reference, update
\* start/end
StoreChain(rt, ref, chain) ==
    [rt EXCEPT !.system_chain = ref,
               !.start_system_id = chain[1],
               !.end_system_id = chain[Len(chain)]]

\* the record of the last call: operation, route(s), argument (for a delete
\* request the number of groups that listed the route), outcome and the
\* route it created
Call(op, r, r2, arg, ret, new) ==
    [op |-> op, r |-> r, r2 |-> r2, arg |-> arg, ret |-> ret, new |-> new]

\* a new, empty project
\* the file save_project writes for a project without systems, routes and
\* groups
EmptyFile == [systems |-> <<>>, routes |-> {}, route_groups |-> {}]

NewProject ==
    /\ project_routes = {}
    /\ route_groups = <<>>
    /\ route_group_names = <<>>
    /\ routes_selected_for_group = {}
    /\ route_items = <<>>
    /\ file = EmptyFile

\* the None a segment query returns
NoSegment == <<>>

\* no systems placed, nothing drawn, nothing queried
EmptyScene ==
    /\ system_items = <<>>
    /\ path = <<>>
    /\ closest_segment = NoSegment

\* the systems of u placed side by side, nothing drawn, nothing queried
PlacedSystems(u) ==
    /\ system_items = [s \in u.sys |-> <<s, 0>>]
    /\ path = <<>>
    /\ closest_segment = NoSegment

\* the modes set_mode is called with; "None" is the mode None
Modes == {"None", "systems", "routes"}

\* the editor in routes mode, no route being drawn
RoutesView ==
    /\ current_mode = "routes"
    /\ route_drawing_active = FALSE
    /\ route_drawing_start_system_id = None
    /\ route_drawing_points = <<>>
    /\ route_creation_start_system_id = None

Init ==
    /\ routes = <<>>
    /\ heap = [h \in Refs |-> <<>>]
    /\ last = Call("init", 0, 0, 0, "ok", 0)
    /\ NewProject
    /\ EmptyScene
    /\ RoutesView

\* the editor on a new project in which the systems of u were placed
InitEditor(u) ==
    /\ routes = <<>>
    /\ heap = [h \in Refs |-> <<>>]
    /\ last = Call("init", 0, 0, 0, "ok", 0)
    /\ NewProject
    /\ PlacedSystems(u)
    /\ RoutesView

\* RouteData.create_new(name, start, end, control_points)
CreateNew(u) ==
    /\ Len(routes) < u.cap
    /\ \E name \in Names, s \in u.sys, e \in u.sys, cps \in CpsInputs(u) :
          LET id == Len(routes) + 1
          IN  /\ routes' = Append(routes, create_new(id, name, s, e, cps))
              /\ last' = Call("create_new", id, 0, 0, "route", id)
    /\ UNCHANGED <<file, heap, editor, scene, view>>

\* route.set_system_chain(chain) with a list the caller built
SetSystemChain(u) ==
    /\ \E r \in 1..Len(routes), chain \in SeqsUpTo(u.sys, u.len) :
        IF ChainRejected(chain)
        THEN /\ last' = Call("set_system_chain", r, 0, Len(chain), "ValueError", 0)
             /\ UNCHANGED <<routes, heap>>
        ELSE LET ref == NewRef(routes, r)
                 rs == [routes EXCEPT ![r] = StoreChain(@, ref, chain)]
             IN  /\ routes' = rs
                 /\ heap' = Collect(rs, [heap EXCEPT ![ref] = chain])
                 /\ last' = Call("set_system_chain", r, 0, Len(chain), "ok", 0)
    /\ UNCHANGED <<file, editor, scene, view>>

\* in-place change of the list get_system_chain returned, then
\* set_system_chain(chain) with that same list
MutateChain(r, chain) ==
    LET ref == ChainRef(routes, heap, r)
        rs == [routes EXCEPT ![r] = StoreChain(@, ref, chain)]
    IN  /\ routes' = rs
        /\ heap' = Collect(rs, [heap EXCEPT ![ref] = chain])

\* route.insert_system_at(index, system_id)
InsertSystemAt(u) ==
    /\ \E r \in 1..Len(routes), index \in -1..u.len, id \in u.sys :
        /\ Len(Chain(r)) < u.len
        /\ MutateChain(r, PyInsert(Chain(r), index, id))
        /\ last' = Call("insert_system_at", r, index, id, "ok", 0)
    /\ UNCHANGED <<file, editor, scene, view>>

\* the guard with < for <=
TooShort_Strict(chain) == Len(chain) < 2

\* the guard of both remove operations: len(chain) <= 2
TooShort(chain) == Len(chain) <= 2

\* route.remove_system_at(index)
RemoveSystemAt(u) ==
    /\ \E r \in 1..Len(routes), index \in -1..u.len :
        IF TooShort(Chain(r))
        THEN /\ last' = Call("remove_system_at", r, 0, index, "ValueError", 0)
             /\ UNCHANGED <<routes, heap>>
        ELSE IF ~PyPopOk(Chain(r), index)
        THEN /\ last' = Call("remove_system_at", r, 0, index, "IndexError", 0)
             /\ UNCHANGED <<routes, heap>>
        ELSE /\ MutateChain(r, PyPop(Chain(r), index))
             /\ last' = Call("remove_system_at", r, 0, index, "ok", 0)
    /\ UNCHANGED <<file, editor, scene, view>>

\* the first test of remove_system_by_id: system_id not in chain
NotInChain(chain, id) == PyIndex(chain, id) < 0

\* remove_system_by_id with the length test ahead of the membership test
RemoveSystemById_LengthFirst(u) ==
    /\ \E r \in 1..Len(routes), id \in u.sys :
        IF TooShort(Chain(r))
        THEN /\ last' = Call("remove_system_by_id", r, 0, id, "ValueError", 0)
             /\ UNCHANGED <<routes, heap>>
        ELSE IF NotInChain(Chain(r), id)
        THEN /\ last' = Call("remove_system_by_id", r, 0, id, "return", 0)
             /\ UNCHANGED <<routes, heap>>
        ELSE /\ MutateChain(r, PyRemove(Chain(r), id))
             /\ last' = Call("remove_system_by_id", r, 0, id, "ok", 0)
    /\ UNCHANGED <<file, editor, scene, view>>

\* route.remove_system_by_id(system_id)
RemoveSystemById(u) ==
    /\ \E r \in 1..Len(routes), id \in u.sys :
        IF NotInChain(Chain(r), id)
        THEN /\ last' = Call("remove_system_by_id", r, 0, id, "return", 0)
             /\ UNCHANGED <<routes, heap>>
        ELSE IF TooShort(Chain(r))
        THEN /\ last' = Call("remove_system_by_id", r, 0, id, "ValueError", 0)
             /\ UNCHANGED <<routes, heap>>
        ELSE /\ MutateChain(r, PyRemove(Chain(r), id))
             /\ last' = Call("remove_system_by_id", r, 0, id, "ok", 0)
    /\ UNCHANGED <<file, editor, scene, view>>

\* split_at_system refuses the first and the last index
AtEdge(chain, index) == index = 0 \/ index = Len(chain) - 1

\* first_chain without the split waypoint: chain[:index]
FirstChain_Exclusive(chain, index) == Slice(chain, 0, index)

\* first_chain = chain[:index + 1], second_chain = chain[index:]
FirstChain(chain, index) == Slice(chain, 0, index + 1)

SecondChain(chain, index) == Slice(chain, index, Len(chain))

\* second_chain kept in the list the original route holds
SecondChainRef_Shared(rs, id, ref1) == ref1

\* the list object of second_chain = chain[index:]: a slice is a new list,
\* not the one (ref1) first_chain went to
SecondChainRef(rs, id, ref1) == NewRef(rs, id)

\* the control_points split_at_system leaves on this route: it does not
\* touch them
KeptControlPoints(rt) == rt.control_points

\* split_at_system after the index lookup: None at the edges, otherwise this
\* route takes first_chain and a new route, made with control_points=[],
\* takes second_chain
SplitAt(u, r, index, call) ==
    LET chain == Chain(r)
    IN  IF AtEdge(chain, index)
        THEN /\ last' = [call EXCEPT !.ret = "None"]
             /\ UNCHANGED <<routes, heap>>
        ELSE LET first_chain == FirstChain(chain, index)
                 second_chain == SecondChain(chain, index)
                 id == Len(routes) + 1
                 ref1 == NewRef(routes, r)
                 rs1 == [routes EXCEPT
                            ![r] = [StoreChain(@, ref1, first_chain) EXCEPT
                                       !.control_points = KeptControlPoints(routes[r])]]
                 new_route == create_new(id, SplitName(routes[r].name),
                                         second_chain[1],
                                         second_chain[Len(second_chain)], NoCps)
                 rs2 == Append(rs1, new_route)
                 ref2 == SecondChainRef(rs2, id, ref1)
                 rs3 == [rs2 EXCEPT ![id] = StoreChain(@, ref2, second_chain)]
             IN  /\ Len(routes) < u.cap
                 /\ routes' = rs3
                 /\ heap' = Collect(rs3, [heap EXCEPT ![ref1] = first_chain,
                                                      ![ref2] = second_chain])
                 /\ last' = [call EXCEPT !.ret = "route", !.new = id]

\* route.split_at_system(system_id)
SplitAtSystem(u) ==
    /\ \E r \in 1..Len(routes), id \in u.sys :
        LET index == PyIndex(Chain(r), id)
            call == Call("split_at_system", r, 0, id, "None", 0)
        IN  IF index < 0
            THEN /\ last' = call
                 /\ UNCHANGED <<routes, heap>>
            ELSE SplitAt(u, r, index, call)
    /\ UNCHANGED <<file, editor, scene, view>>

\* route.split_at_index(index): looks up the id at index and splits at that id
SplitAtIndex(u) ==
    /\ \E r \in 1..Len(routes), index \in -1..u.len :
        LET chain == Chain(r)
            call == Call("split_at_index", r, 0, index, "None", 0)
        IN  IF index <= 0 \/ index >= Len(chain) - 1
            THEN /\ last' = call
                 /\ UNCHANGED <<routes, heap>>
            ELSE SplitAt(u, r, PyIndex(chain, chain[index + 1]), call)
    /\ UNCHANGED <<file, editor, scene, view>>

\* merge_routes with the end-to-end test ahead of the end-to-start test
MergedChain_EndEndFirst(chain1, chain2) ==
    LET n1 == Len(chain1)
        n2 == Len(chain2)
    IN  IF chain1[n1] = chain2[n2]
        THEN chain1 \o Reverse(Slice(chain2, 0, n2 - 1))
        ELSE IF chain1[n1] = chain2[1] THEN chain1 \o Slice(chain2, 1, n2)
        ELSE IF chain1[1] = chain2[n2] THEN chain2 \o Slice(chain1, 1, n1)
        ELSE IF chain1[1] = chain2[1]
             THEN Reverse(Slice(chain2, 1, n2)) \o chain1
        ELSE <<>>

\* merge_routes with the start-to-end test first
MergedChain_StartEndFirst(chain1, chain2) ==
    LET n1 == Len(chain1)
        n2 == Len(chain2)
    IN  IF chain1[1] = chain2[n2] THEN chain2 \o Slice(chain1, 1, n1)
        ELSE IF chain1[n1] = chain2[1] THEN chain1 \o Slice(chain2, 1, n2)
        ELSE IF chain1[n1] = chain2[n2]
             THEN chain1 \o Reverse(Slice(chain2, 0, n2 - 1))
        ELSE IF chain1[1] = chain2[1]
             THEN Reverse(Slice(chain2, 1, n2)) \o chain1
        ELSE <<>>

\* merge_routes appending route2 unreversed in the end-to-end case
MergedChain_NoReverse(chain1, chain2) ==
    LET n1 == Len(chain1)
        n2 == Len(chain2)
    IN  IF chain1[n1] = chain2[1] THEN chain1 \o Slice(chain2, 1, n2)
        ELSE IF chain1[n1] = chain2[n2]
             THEN chain1 \o Slice(chain2, 0, n2 - 1)
        ELSE IF chain1[1] = chain2[n2] THEN chain2 \o Slice(chain1, 1, n1)
        ELSE IF chain1[1] = chain2[1]
             THEN Reverse(Slice(chain2, 1, n2)) \o chain1
        ELSE <<>>

\* merge_routes without the start-to-start case
MergedChain_ThreeCases(chain1, chain2) ==
    LET n1 == Len(chain1)
        n2 == Len(chain2)
    IN  IF chain1[n1] = chain2[1] THEN chain1 \o Slice(chain2, 1, n2)
        ELSE IF chain1[n1] = chain2[n2]
             THEN chain1 \o Reverse(Slice(chain2, 0, n2 - 1))
        ELSE IF chain1[1] = chain2[n2] THEN chain2 \o Slice(chain1, 1, n1)
        ELSE <<>>

\* the merged_chain of merge_routes; <<>> stands for None
MergedChain(chain1, chain2) ==
    LET n1 == Len(chain1)
        n2 == Len(chain2)
    IN  IF chain1[n1] = chain2[1] THEN chain1 \o Slice(chain2, 1, n2)
        ELSE IF chain1[n1] = chain2[n2]
             THEN chain1 \o Reverse(Slice(chain2, 0, n2 - 1))
        ELSE IF chain1[1] = chain2[n2] THEN chain2 \o Slice(chain1, 1, n1)
        ELSE IF chain1[1] = chain2[1]
             THEN Reverse(Slice(chain2, 1, n2)) \o chain1
        ELSE <<>>

\* merged_chain written into a list one of the routes already holds
MergedChainRef_Reused(rs, id) ==
    IF UsedRefs(rs, id) # {}
    THEN CHOOSE h \in UsedRefs(rs, id) : \A g \in UsedRefs(rs, id) : h <= g
    ELSE NewRef(rs, id)

\* the list object of merged_chain: list + list and list(reversed(...)) make
\* new lists
MergedChainRef(rs, id) == NewRef(rs, id)

\* the route objects and lists after merge_routes made the merged route: a
\* new route, made with control_points=[], that takes merged_chain
Merged(rs, hp, name, merged_chain) ==
    LET id == Len(rs) + 1
        merged == create_new(id, name, merged_chain[1],
                             merged_chain[Len(merged_chain)], NoCps)
        rs1 == Append(rs, merged)
        ref == MergedChainRef(rs1, id)
        rs2 == [rs1 EXCEPT ![id] = StoreChain(@, ref, merged_chain)]
    IN  [routes |-> rs2,
         heap |-> Collect(rs2, [hp EXCEPT ![ref] = merged_chain])]

\* merge_routes(route1, route2): None when no endpoint pair matches
Merge(u, r1, r2, call) ==
    LET merged_chain == MergedChain(Chain(r1), Chain(r2))
        name == MergedName(routes[r1].name, routes[r2].name)
    IN  IF Len(merged_chain) = 0
        THEN /\ last' = call
             /\ UNCHANGED <<routes, heap>>
        ELSE /\ Len(routes) < u.cap
             /\ Len(merged_chain) <= u.mlen
             /\ routes' = Merged(routes, heap, name, merged_chain).routes
             /\ heap' = Merged(routes, heap, name, merged_chain).heap
             /\ last' = [call EXCEPT !.ret = "route", !.new = Len(routes) + 1]

\* the route objects there are: those not released
Live(rs) == {i \in 1..Len(rs) : rs[i].start_system_id # None}

\* RouteData.merge_routes(route1, route2)
MergeRoutes(u) ==
    /\ \E r1 \in Live(routes), r2 \in Live(routes) :
          Merge(u, r1, r2, Call("merge_routes", r1, r2, 0, "None", 0))
    /\ UNCHANGED <<file, editor, scene, view>>

\* -------------------------------------------------------------- RouteItem
\* system_items maps the ids of the placed systems to the positions of their
\* items; a path is the sequence of the draw commands issued for it

\* every system of the chain is in system_items
Resolved(items, system_chain) ==
    \A i \in 1..Len(system_chain) : system_chain[i] \in DOMAIN items

\* the positions loop going on after a system that is not found
Positions_SkipMissing(items, system_chain) ==
    LET found == SelectSeq(system_chain, LAMBDA x : x \in DOMAIN items)
    IN  [i \in 1..Len(found) |-> items[found[i]]]

\* the positions loop: the positions of the systems of the chain; <<>> when
\* it returned at a system that is not found
Positions(items, system_chain) ==
    IF Resolved(items, system_chain)
    THEN [i \in 1..Len(system_chain) |-> items[system_chain[i]]]
    ELSE <<>>

MoveTo(p) == [cmd |-> "moveTo", to |-> p]

LineTo(p) == [cmd |-> "lineTo", to |-> p]

\* the control points drawn last to first
ThroughControlPoints_Backwards(control_points, positions) ==
    [i \in 1..Len(control_points) |->
        LineTo(control_points[Len(control_points) + 1 - i])]
        \o <<LineTo(positions[2])>>

\* one line from the start to the end, whatever the control points
ThroughControlPoints_Straight(control_points, positions) ==
    <<LineTo(positions[2])>>

\* the draw commands after moveTo for a two-system route with control
\* points: a line to each control point, then a line to the end
ThroughControlPoints(control_points, positions) ==
    [i \in 1..Len(control_points) |-> LineTo(control_points[i])]
        \o <<LineTo(positions[2])>>

\* ... and for every other route: a line to each further system
SystemToSystem(positions) ==
    [i \in 1..(Len(positions) - 1) |-> LineTo(positions[i + 1])]

\* recompute_path that draws through the control points of every route that
\* has some, whatever the length of its chain
recompute_path_AnyLength(rt, hp, items) ==
    LET system_chain == get_system_chain(rt, hp)
        positions == Positions(items, system_chain)
    IN  IF Len(positions) < 2
        THEN <<>>
        ELSE <<MoveTo(positions[1])>> \o
             (IF Len(rt.control_points) > 0
              THEN ThroughControlPoints(rt.control_points, positions)
              ELSE SystemToSystem(positions))

\* recompute_path: the path it hands to setPath, empty when a system was not
\* found or fewer than two positions were collected
recompute_path(rt, hp, items) ==
    LET system_chain == get_system_chain(rt, hp)
        positions == Positions(items, system_chain)
    IN  IF Len(positions) < 2
        THEN <<>>
        ELSE <<MoveTo(positions[1])>> \o
             (IF Len(system_chain) = 2 /\ Len(rt.control_points) > 0
              THEN ThroughControlPoints(rt.control_points, positions)
              ELSE SystemToSystem(positions))

\* route_item.recompute_path()
RecomputePath(u) ==
    /\ \E r \in 1..Len(routes) :
          /\ path' = recompute_path(routes[r], heap, system_items)
          /\ last' = Call("recompute_path", r, 0, 0, "ok", 0)
    /\ UNCHANGED <<file, routes, heap, editor, system_items, closest_segment, view>>

\* squared distances are fractions <<numerator, denominator>>, so that they
\* compare exactly; float('inf') is <<1, 0>>
Sq(n) == n * n

Infinity == <<1, 0>>

Less(d, e) == d[1] * e[2] < e[1] * d[2]

\* dist <= threshold
WithinThreshold(dist, threshold) ==
    threshold >= 0 /\ dist[1] <= Sq(threshold) * dist[2]

\* _point_to_segment_distance, squared: the distance to seg_start when the
\* segment is a point, else to the point at parameter t = dot / len2 clamped
\* to [0, 1]
point_to_segment_distance(point, seg_start, seg_end) ==
    LET dx == seg_end[1] - seg_start[1]
        dy == seg_end[2] - seg_start[2]
        px == point[1] - seg_start[1]
        py == point[2] - seg_start[2]
        dot == px * dx + py * dy
        len2 == dx * dx + dy * dy
    IN  IF dx = 0 /\ dy = 0 THEN <<Sq(px) + Sq(py), 1>>
        ELSE IF dot <= 0 THEN <<Sq(px) + Sq(py), 1>>
        ELSE IF dot >= len2 THEN <<Sq(px - dx) + Sq(py - dy), 1>>
        ELSE <<Sq(px * len2 - dot * dx) + Sq(py * len2 - dot * dy), Sq(len2)>>

\* the comparison with <= for <
Closer_OrEqual(dist, min_dist) == ~Less(min_dist, dist)

\* dist < min_dist
Closer(dist, min_dist) == Less(dist, min_dist)

\* the loop over the segments from the i-th on; segment indexes count from 0
RECURSIVE ClosestFrom(_, _, _, _, _, _, _)
ClosestFrom(i, positions, system_chain, scene_pos, threshold, min_dist, closest) ==
    IF i > Len(positions) - 1 THEN closest
    ELSE LET dist == point_to_segment_distance(scene_pos, positions[i],
                                               positions[i + 1])
         IN  IF Closer(dist, min_dist) /\ WithinThreshold(dist, threshold)
             THEN ClosestFrom(i + 1, positions, system_chain, scene_pos,
                              threshold, dist,
                              <<i - 1, system_chain[i], system_chain[i + 1]>>)
             ELSE ClosestFrom(i + 1, positions, system_chain, scene_pos,
                              threshold, min_dist, closest)

\* get_segment_at_point(scene_pos, threshold)
get_segment_at_point(rt, hp, items, scene_pos, threshold) ==
    LET system_chain == get_system_chain(rt, hp)
    IN  IF Len(system_chain) < 2 \/ ~Resolved(items, system_chain)
        THEN NoSegment
        ELSE ClosestFrom(1, Positions(items, system_chain), system_chain,
                         scene_pos, threshold, Infinity, NoSegment)

\* route_item.get_segment_at_point(scene_pos, threshold)
GetSegmentAtPoint(u) ==
    /\ \E r \in 1..Len(routes), scene_pos \in Grid, threshold \in 0..MaxThreshold :
          /\ closest_segment' = get_segment_at_point(routes[r], heap, system_items,
                                                     scene_pos, threshold)
          /\ last' = Call("get_segment_at_point", r, threshold, scene_pos, "ok", 0)
    /\ UNCHANGED <<file, routes, heap, editor, system_items, path, view>>

\* ------------------------------------------------------------ the editor
\* route ids are positions in routes; project_routes holds the ids that
\* project.routes and the scene's route_items still have

\* f without the key k
Without(f, k) == [x \in DOMAIN f \ {k} |-> f[x]]

\* add_route_to_scene(route_data): a new RouteItem, whose constructor builds
\* the path, is stored under the id of the route
AddRouteToScene(items, rt, hp, systems) ==
    [k \in DOMAIN items \cup {rt.id} |->
        IF k = rt.id THEN recompute_path(rt, hp, systems) ELSE items[k]]

\* the items after route_item.recompute_path() on the item of route r
Recomputed(items, r, rs, hp, systems) ==
    [items EXCEPT ![r] = recompute_path(rs[r], hp, systems)]

\* the orders list(a_set) may give
Orders(S) ==
    {o \in [1..Cardinality(S) -> S] :
        \A i, j \in 1..Cardinality(S) : o[i] = o[j] => i = j}

\* handle_finish_route_drawing: a route between s and e, in either direction,
\* is already in the project
RouteExists(s, e) ==
    \E i \in project_routes :
        \/ routes[i].start_system_id = s /\ routes[i].end_system_id = e
        \/ routes[i].start_system_id = e /\ routes[i].end_system_id = s

\* the systems of the project carry one and the same display name
SystemName(s) == "S"

\* route_name = f"{start_sys.name} - {end_sys.name}"
RouteName(start_name, end_name) == <<start_name, "-", end_name>>

\* handle_finish_route_drawing after it read and reset the drawing state: no
\* route from a system to itself, none between two systems that have one
FinishRouteDrawing(u, s, e, points) ==
    IF s = e \/ RouteExists(s, e)
    THEN /\ last' = Call("handle_finish_route_drawing", 0, 0, 0, "return", 0)
         /\ UNCHANGED <<routes, project_routes, route_items>>
    ELSE LET id == Len(routes) + 1
             route_data == create_new(id, RouteName(SystemName(s), SystemName(e)),
                                      s, e, [none |-> FALSE, pts |-> points])
         IN  /\ Len(routes) < u.cap
             /\ routes' = Append(routes, route_data)
             /\ project_routes' = project_routes \cup {id}
             /\ route_items' = AddRouteToScene(route_items, route_data, heap,
                                               system_items)
             /\ last' = Call("handle_finish_route_drawing", 0, 0, 0, "route", id)

\* a route drawn in one go in routes mode: click on the start system, clicks
\* on empty space, click on the end system; the view is then as before
HandleFinishRouteDrawing(u) ==
    /\ current_mode = "routes" /\ ~route_drawing_active
    /\ \E s \in DOMAIN system_items, e \in DOMAIN system_items,
          points \in SeqsUpTo(u.pts, u.cps) :
          FinishRouteDrawing(u, s, e, points)
    /\ UNCHANGED <<file, heap, route_groups, route_group_names, routes_selected_for_group, scene, view>>

\* view.cancel_route_drawing()
CancelRouteDrawing ==
    /\ route_drawing_active' = FALSE
    /\ route_drawing_start_system_id' = None
    /\ route_drawing_points' = <<>>

\* MapView.mousePressEvent in routes mode, one click at a time. Not drawing:
\* a left click on a system starts a route (handle_start_route_drawing).
\* Drawing: a left click on empty space adds a point, a left click on a
\* system finishes the route (handle_finish_route_drawing), a right click
\* cancels it.
MousePressEvent(u) ==
    /\ current_mode = "routes"
    /\ \/ /\ ~route_drawing_active
          /\ \E s \in DOMAIN system_items :
                /\ route_drawing_active' = TRUE
                /\ route_drawing_start_system_id' = s
                /\ route_drawing_points' = <<>>
          /\ last' = Call("handle_start_route_drawing", 0, 0, 0, "ok", 0)
          /\ UNCHANGED <<routes, project_routes, route_items>>
       \/ /\ route_drawing_active
          /\ Len(route_drawing_points) < u.cps
          /\ \E scene_pos \in u.pts :
                route_drawing_points' = Append(route_drawing_points, scene_pos)
          /\ last' = Call("mousePressEvent", 0, 0, 0, "ok", 0)
          /\ UNCHANGED <<routes, project_routes, route_items,
                         route_drawing_active, route_drawing_start_system_id>>
       \/ /\ route_drawing_active
          /\ \E e \in DOMAIN system_items :
                FinishRouteDrawing(u, route_drawing_start_system_id, e,
                                   route_drawing_points)
          /\ CancelRouteDrawing
       \/ /\ route_drawing_active
          /\ CancelRouteDrawing
          /\ last' = Call("cancel_route_drawing", 0, 0, 0, "ok", 0)
          /\ UNCHANGED <<routes, project_routes, route_items>>
    /\ UNCHANGED <<file, heap, route_groups, route_group_names, routes_selected_for_group, scene,
                   current_mode, route_creation_start_system_id>>

\* cancel_route_creation(): the editor's own start system and preview line
CancelRouteCreation == route_creation_start_system_id' = None

\* set_mode(mode): leaving routes mode calls cancel_route_creation and clears
\* the CTRL+click selection
SetMode(u) ==
    /\ \E mode \in Modes :
          /\ current_mode' = mode
          /\ IF mode # "routes"
             THEN /\ CancelRouteCreation
                  /\ routes_selected_for_group' = {}
             ELSE UNCHANGED <<route_creation_start_system_id,
                              routes_selected_for_group>>
          /\ last' = Call("set_mode", 0, 0, 0, "ok", 0)
    /\ UNCHANGED <<file, routes, heap, project_routes, route_groups, route_group_names, route_items,
                   scene, route_drawing_active, route_drawing_start_system_id,
                   route_drawing_points>>

\* toggle_route_for_group(route_id): CTRL+click on a route item
ToggleRouteForGroup(u) ==
    /\ current_mode = "routes" /\ ~route_drawing_active
    /\ \E route_id \in project_routes :
          /\ routes_selected_for_group' =
                IF route_id \in routes_selected_for_group
                THEN routes_selected_for_group \ {route_id}
                ELSE routes_selected_for_group \cup {route_id}
          /\ last' = Call("toggle_route_for_group", 0, 0, 0, "ok", 0)
    /\ UNCHANGED <<file, routes, heap, project_routes, route_groups, route_group_names, route_items,
                   scene, view>>

\* a new group id
NewGroupId(groups) ==
    CHOOSE g \in 1..(MaxGroups + 1) :
        g \notin DOMAIN groups /\ \A h \in 1..(g - 1) : h \in DOMAIN groups

\* project.add_route_group(RouteGroup.create_new(name, route_ids))
AddRouteGroup(groups, group_id, route_ids) ==
    [g \in DOMAIN groups \cup {group_id} |->
        IF g = group_id THEN route_ids ELSE groups[g]]

\* the names a group is given in the dialog
GroupNames == {"G"}

\* the names of the groups that are left, and the name of a new one
NamesOf(groups, names, name) ==
    [g \in DOMAIN groups |-> IF g \in DOMAIN names THEN names[g] ELSE name]

\* create_route_group_dialog: a group of the selected routes, name accepted
CreateRouteGroupDialog(u) ==
    /\ IF routes_selected_for_group = {}
       THEN /\ last' = Call("create_route_group_dialog", 0, 0, 0, "return", 0)
            /\ UNCHANGED <<route_groups, route_group_names, routes_selected_for_group>>
       ELSE \E route_ids \in Orders(routes_selected_for_group) :
                LET group_id == NewGroupId(route_groups)
                IN  /\ Cardinality(DOMAIN route_groups) < MaxGroups
                    /\ route_groups' = AddRouteGroup(route_groups, group_id, route_ids)
                    /\ \E name \in GroupNames :
                          route_group_names' =
                              NamesOf(route_groups', route_group_names, name)
                    /\ routes_selected_for_group' = {}
                    /\ last' = Call("create_route_group_dialog", 0, 0, 0, "ok", 0)
    /\ UNCHANGED <<file, routes, heap, project_routes, route_items, scene, view>>

\* the group loop of handle_route_delete_request that keeps emptied groups
PurgeRoute_KeepEmpty(groups, route_id) ==
    [g \in DOMAIN groups |->
        IF PyIndex(groups[g], route_id) >= 0
        THEN PyRemove(groups[g], route_id) ELSE groups[g]]

\* the group loop of handle_route_delete_request: route_id leaves every
\* group that lists it, and the groups this empties are deleted
PurgeRoute(groups, route_id) ==
    LET listed == {g \in DOMAIN groups : PyIndex(groups[g], route_id) >= 0}
        purged == [g \in DOMAIN groups |->
                      IF g \in listed THEN PyRemove(groups[g], route_id)
                      ELSE groups[g]]
        groups_to_remove == {g \in listed : Len(purged[g]) = 0}
    IN  [g \in DOMAIN groups \ groups_to_remove |-> purged[g]]

\* a route object that left project.routes and the scene is gone, and its
\* list with it; its id stays wherever it was copied to
Deleted(id) == RouteData(id, <<>>, None, None, <<>>, None)

Release(rs, ids) == [i \in 1..Len(rs) |-> IF i \in ids THEN Deleted(i) ELSE rs[i]]

\* handle_route_delete_request(route_id): Delete Route in the context menu
\* of a route item, confirmed
HandleRouteDeleteRequest(u) ==
    /\ \E route_id \in DOMAIN route_items :
          /\ route_items' = Without(route_items, route_id)
          /\ project_routes' = project_routes \ {route_id}
          /\ routes' = Release(routes, {route_id})
          /\ heap' = Collect(routes', heap)
          /\ route_groups' = PurgeRoute(route_groups, route_id)
          /\ route_group_names' = NamesOf(route_groups', route_group_names, "")
          /\ last' = Call("handle_route_delete_request", route_id, 0,
                          Cardinality({g \in DOMAIN route_groups :
                                          PyIndex(route_groups[g], route_id) >= 0}),
                          "ok", 0)
    /\ UNCHANGED <<file, routes_selected_for_group, scene, view>>

\* remove_route that forgets project.remove_route
RemoveRoute_ItemOnly(items, ids, route_id) ==
    IF route_id \in DOMAIN items
    THEN [route_items |-> Without(items, route_id), project_routes |-> ids]
    ELSE [route_items |-> items, project_routes |-> ids]

\* remove_route(route_id): when the route has an item, the item and the
\* project's route go
RemoveRoute(items, ids, route_id) ==
    IF route_id \in DOMAIN items
    THEN [route_items |-> Without(items, route_id),
          project_routes |-> ids \ {route_id}]
    ELSE [route_items |-> items, project_routes |-> ids]

\* keyPressEvent, Delete key in routes mode on a selected route item,
\* confirmed
KeyPressEvent(u) ==
    /\ current_mode = "routes"
    /\ \E route_id \in DOMAIN route_items :
          /\ route_items' = RemoveRoute(route_items, project_routes, route_id).route_items
          /\ project_routes' =
                RemoveRoute(route_items, project_routes, route_id).project_routes
          /\ routes' = Release(routes, {route_id})
          /\ heap' = Collect(routes', heap)
          /\ last' = Call("keyPressEvent", 0, 0, 0, "ok", 0)
    /\ UNCHANGED <<file, route_groups, route_group_names, routes_selected_for_group, scene, view>>

\* insert_system_into_route: a selected system that is not in the selected
\* route goes in at the row chosen in the dialog
InsertSystemIntoRoute(u) ==
    /\ \E r \in DOMAIN route_items, sys_id \in DOMAIN system_items :
          IF ~NotInChain(Chain(r), sys_id)
          THEN /\ last' = Call("insert_system_into_route", 0, 0, 0, "return", 0)
               /\ UNCHANGED <<routes, heap, route_items>>
          ELSE \E insert_index \in 0..Len(Chain(r)) :
                  /\ Len(Chain(r)) < u.len
                  /\ MutateChain(r, PyInsert(Chain(r), insert_index, sys_id))
                  /\ route_items' = Recomputed(route_items, r, routes', heap',
                                               system_items)
                  /\ last' = Call("insert_system_into_route", r, 0, 0, "ok", 0)
    /\ UNCHANGED <<file, project_routes, route_groups, route_group_names, routes_selected_for_group,
                   scene, view>>

\* remove_system_from_route: a selected system leaves the selected route
RemoveSystemFromRoute(u) ==
    /\ \E r \in DOMAIN route_items, sys_id \in DOMAIN system_items :
          IF NotInChain(Chain(r), sys_id) \/ TooShort(Chain(r))
          THEN /\ last' = Call("remove_system_from_route", 0, 0, 0, "return", 0)
               /\ UNCHANGED <<routes, heap, route_items>>
          ELSE /\ MutateChain(r, PyRemove(Chain(r), sys_id))
               /\ route_items' = Recomputed(route_items, r, routes', heap',
                                            system_items)
               /\ last' = Call("remove_system_from_route", r, 0, 0, "ok", 0)
    /\ UNCHANGED <<file, project_routes, route_groups, route_group_names, routes_selected_for_group,
                   scene, view>>

\* split_route_at_system: the selected route is split at a selected system
\* and the new route joins the project
SplitRouteAtSystem(u) ==
    /\ \E r \in DOMAIN route_items, sys_id \in DOMAIN system_items :
          LET sys_index == PyIndex(Chain(r), sys_id)
              call == Call("split_route_at_system", r, 0, 0, "return", 0)
          IN  IF sys_index < 0 \/ AtEdge(Chain(r), sys_index)
              THEN /\ last' = Call("split_route_at_system", 0, 0, 0, "return", 0)
                   /\ UNCHANGED <<routes, heap, project_routes, route_items>>
              ELSE /\ SplitAt(u, r, sys_index, call)
                   /\ project_routes' = project_routes \cup {Len(routes) + 1}
                   /\ route_items' =
                         Recomputed(AddRouteToScene(route_items,
                                                    routes'[Len(routes) + 1],
                                                    heap', system_items),
                                    r, routes', heap', system_items)
    /\ UNCHANGED <<file, route_groups, route_group_names, routes_selected_for_group, scene, view>>

\* merge_selected_routes: the two CTRL+clicked routes are merged; on Yes both
\* are removed with remove_route and the merged route joins the project, on
\* No the merged route is dropped
MergeSelectedRoutes(u) ==
    /\ IF Cardinality(routes_selected_for_group) # 2
       THEN /\ last' = Call("merge_selected_routes", 0, 0, 0, "return", 0)
            /\ UNCHANGED <<routes, heap, project_routes, route_items,
                           routes_selected_for_group>>
       ELSE \E r1 \in routes_selected_for_group :
            \E r2 \in routes_selected_for_group \ {r1} :
                LET call == Call("merge_selected_routes", r1, r2, 0, "return", 0)
                IN  IF r1 \notin project_routes \/ r2 \notin project_routes
                       \/ Len(MergedChain(Chain(r1), Chain(r2))) = 0
                    THEN /\ last' = Call("merge_selected_routes", 0, 0, 0, "return", 0)
                         /\ UNCHANGED <<routes, heap, project_routes,
                                        route_items, routes_selected_for_group>>
                    ELSE LET merged_chain == MergedChain(Chain(r1), Chain(r2))
                             m == Merged(routes, heap,
                                         MergedName(routes[r1].name, routes[r2].name),
                                         merged_chain)
                         IN
                         \/  /\ routes' = SubSeq(m.routes, 1, Len(routes))
                             /\ heap' = Collect(routes', m.heap)
                             /\ last' = [call EXCEPT !.ret = "No"]
                             /\ UNCHANGED <<project_routes, route_items,
                                            routes_selected_for_group>>
                         \/  LET removed1 == RemoveRoute(route_items, project_routes, r1)
                                 removed == RemoveRoute(removed1.route_items,
                                                        removed1.project_routes, r2)
                             IN
                             /\ Len(routes) < u.cap
                             /\ Len(merged_chain) <= u.mlen
                             /\ routes' = Release(m.routes, {r1, r2})
                             /\ heap' = Collect(routes', m.heap)
                             /\ project_routes' =
                                   removed.project_routes \cup {Len(routes) + 1}
                             /\ route_items' =
                                   AddRouteToScene(removed.route_items,
                                                   m.routes[Len(routes) + 1],
                                                   m.heap, system_items)
                             /\ routes_selected_for_group' = {}
                             /\ last' = [call EXCEPT !.ret = "route",
                                                     !.new = Len(routes) + 1]
    /\ UNCHANGED <<file, route_groups, route_group_names, scene, view>>

\* the places of a right-click on a route: on the row of the systems or one
\* above it
ClickSpots(u) == u.sys \X {0, 1}

\* show_segment_context_menu, "Insert System into Route Here": a selected
\* system that is not in the route goes in after the first system of the
\* segment that was right-clicked
InsertSystemIntoSegment(u) ==
    /\ \E r \in DOMAIN route_items, sys_id \in DOMAIN system_items,
          scene_pos \in ClickSpots(u) :
          LET segment_info == get_segment_at_point(routes[r], heap, system_items,
                                                   scene_pos, MaxThreshold)
          IN  /\ segment_info # NoSegment
              /\ IF ~NotInChain(Chain(r), sys_id)
                 THEN /\ last' = Call("show_segment_context_menu", 0, 0, 0, "return", 0)
                      /\ UNCHANGED <<routes, heap, route_items>>
                 ELSE /\ Len(Chain(r)) < u.len
                      /\ MutateChain(r, PyInsert(Chain(r), segment_info[1] + 1, sys_id))
                      /\ route_items' = Recomputed(route_items, r, routes', heap',
                                                   system_items)
                      /\ last' = Call("show_segment_context_menu", r, 0, 0, "ok", 0)
    /\ UNCHANGED <<file, project_routes, route_groups, route_group_names, routes_selected_for_group,
                   scene, view>>

\* update_routes_for_system_movement: every route item rebuilds its path
UpdateRoutesForSystemMovement(items, rs, hp, systems) ==
    [k \in DOMAIN items |-> recompute_path(rs[k], hp, systems)]

\* a system is dragged to another place in systems mode; on release
\* on_item_modified updates the routes
OnItemModified(u) ==
    /\ current_mode = "systems"
    /\ \E s \in DOMAIN system_items, p \in u.pts :
          /\ system_items' = [system_items EXCEPT ![s] = p]
          /\ route_items' = UpdateRoutesForSystemMovement(route_items, routes, heap,
                                                          system_items')
          /\ last' = Call("on_item_modified", 0, 0, s, "ok", 0)
    /\ UNCHANGED <<file, routes, heap, project_routes, route_groups, route_group_names,
                   routes_selected_for_group, path, closest_segment, view>>

\* remove_system(system_id), from the Delete button of the system dialog in
\* systems mode: the system item and the project's system go
RemoveSystem(u) ==
    /\ current_mode = "systems"
    /\ \E system_id \in DOMAIN system_items :
          /\ system_items' = Without(system_items, system_id)
          /\ last' = Call("remove_system", 0, 0, system_id, "ok", 0)
    /\ UNCHANGED <<file, routes, heap, editor, path, closest_segment, view>>

\* ---------------------------------------------------------- project files
\* JSON values: null, and the array json.dump writes for a list or a tuple
JsonNull == [null |-> TRUE, array |-> <<>>]

JsonArray(s) == [null |-> FALSE, array |-> s]

\* tuple(cp): the tuple of the elements of a JSON array
tuple(cp) == cp.array

\* the dict save_project writes for a route
RouteDict(rt, hp) ==
    [id |-> rt.id, name |-> rt.name,
     start_system_id |-> rt.start_system_id,
     end_system_id |-> rt.end_system_id,
     control_points |-> [i \in 1..Len(rt.control_points) |->
                            JsonArray(rt.control_points[i])],
     system_chain |-> IF rt.system_chain = None THEN JsonNull
                      ELSE JsonArray(hp[rt.system_chain])]

\* the dict save_project writes for a route group
GroupDict(id, name, route_ids) ==
    [id |-> id, name |-> name, route_ids |-> JsonArray(route_ids)]

\* save_project(project, file_path): the systems, the routes and the route
\* groups of the project as the file holds them
save_project(rs, hp, ids, groups, names, systems) ==
    [systems |-> systems,
     routes |-> {RouteDict(rs[k], hp) : k \in ids},
     route_groups |-> {GroupDict(g, names[g], groups[g]) : g \in DOMAIN groups}]

\* load_project: the route dicts that are loaded, those whose start and end
\* systems are among the loaded systems
LoadableRoutes(f) ==
    {r_dict \in f.routes :
        /\ r_dict.start_system_id \in DOMAIN f.systems
        /\ r_dict.end_system_id \in DOMAIN f.systems}

\* system_chain of a loaded route when the key is not read
LoadedChainRef_NotRead(r_dict) == None

\* system_chain=r_dict.get("system_chain"): None for null, else a new list,
\* held by the list object with the number of the route
LoadedChainRef(r_dict) ==
    IF r_dict.system_chain.null THEN None ELSE r_dict.id

\* the RouteData load_project makes of a route dict
LoadedRoute(r_dict) ==
    RouteData(r_dict.id, r_dict.name, r_dict.start_system_id,
              r_dict.end_system_id,
              [i \in 1..Len(r_dict.control_points) |->
                  tuple(r_dict.control_points[i])],
              LoadedChainRef(r_dict))

\* load_project(file_path): project.routes keyed by route.id, the list
\* objects of the chains, project.route_groups keyed by group id with their
\* names, and project.systems
load_project(f, n) ==
    LET loaded == LoadableRoutes(f)
        the(id) == CHOOSE r_dict \in loaded : r_dict.id = id
        group(id) == CHOOSE g_dict \in f.route_groups : g_dict.id = id
        ids == {r_dict.id : r_dict \in loaded}
        rs == [i \in 1..n |-> IF i \in ids THEN LoadedRoute(the(i)) ELSE Deleted(i)]
    IN  [routes |-> rs,
         heap |-> [h \in Refs |->
                     IF h \in ids /\ rs[h].system_chain = h
                     THEN the(h).system_chain.array ELSE <<>>],
         project_routes |-> ids,
         route_groups |-> [g \in {g_dict.id : g_dict \in f.route_groups} |->
                              group(g).route_ids.array],
         route_group_names |-> [g \in {g_dict.id : g_dict \in f.route_groups} |->
                                   group(g).name],
         systems |-> f.systems]

\* File > Save: save_project writes the project to its file
SaveProject(u) ==
    /\ file' = save_project(routes, heap, project_routes, route_groups,
                            route_group_names, system_items)
    /\ last' = Call("save_project", 0, 0, 0, "ok", 0)
    /\ UNCHANGED <<routes, heap, editor, scene, view>>

\* File > Open on the file: the scene and the item dicts are cleared, the
\* loaded project replaces the project, and an item is made for every loaded
\* system and route
OpenProject(u) ==
    /\ LET project == load_project(file, Len(routes))
       IN  /\ routes' = project.routes
           /\ heap' = project.heap
           /\ project_routes' = project.project_routes
           /\ route_groups' = project.route_groups
           /\ route_group_names' = project.route_group_names
           /\ system_items' = project.systems
           /\ route_items' = [k \in project.project_routes |->
                                 recompute_path(project.routes[k], project.heap,
                                                project.systems)]
    /\ last' = Call("open_project", 0, 0, 0, "ok", 0)
    /\ UNCHANGED <<file, routes_selected_for_group, path, closest_segment, view>>

\* File > New: everything is cleared, the project is a new MapProject, and
\* set_mode(None) is called
NewProjectMenu(u) ==
    /\ routes' = Release(routes, 1..Len(routes))
    /\ heap' = [h \in Refs |-> <<>>]
    /\ project_routes' = {}
    /\ route_groups' = <<>>
    /\ route_group_names' = <<>>
    /\ route_items' = <<>>
    /\ system_items' = <<>>
    /\ current_mode' = "None"
    /\ CancelRouteCreation
    /\ routes_selected_for_group' = {}
    /\ last' = Call("new_project", 0, 0, 0, "ok", 0)
    /\ UNCHANGED <<file, path, closest_segment, route_drawing_active,
                   route_drawing_start_system_id, route_drawing_points>>

\* ------------------------------------------------------- specifications
\* an editing session: any calls, in any order, on up to MaxRoutes route objects
Next ==
    \/ CreateNew(Session)
    \/ SetSystemChain(Session)
    \/ InsertSystemAt(Session)
    \/ RemoveSystemAt(Session)
    \/ RemoveSystemById(Session)
    \/ SplitAtSystem(Session)
    \/ SplitAtIndex(Session)
    \/ MergeRoutes(Session)

Spec == Init /\ [][Next]_vars

\* what a drawn route is made from: the chain, whether it is still the
\* implicit [start, end] of create_new, and the control points
Draws(u) ==
    [chain : SeqsUpTo(u.sys, u.len) \ SeqsUpTo(u.sys, 1),
     cps : SeqsUpTo(u.pts, u.cps),
     stored : BOOLEAN]

\* a route as create_new made it, or after set_system_chain(chain)
DrawnRoute(d, id) ==
    IF d.stored
    THEN RouteData(id, <<"R">>, d.chain[1], d.chain[Len(d.chain)], d.cps, id)
    ELSE create_new(id, <<"R">>, d.chain[1], d.chain[2],
                    [none |-> FALSE, pts |-> d.cps])

\* n routes, route i holding list object i when it has a system_chain
InitDrawn(u, n) ==
    \E d \in [1..n -> Draws(u)] :
        /\ \A i \in 1..n : d[i].stored \/ Len(d[i].chain) = 2
        /\ routes = [i \in 1..n |-> DrawnRoute(d[i], i)]
        /\ heap = [h \in Refs |-> IF h <= n /\ d[h].stored THEN d[h].chain
                                  ELSE <<>>]
        /\ last = Call("init", 0, 0, 0, "ok", 0)
        /\ NewProject
        /\ EmptyScene
        /\ RoutesView

\* a project opened from a file that holds n routes
InitProject(u, n) ==
    \E d \in [1..n -> Draws(u)] :
        /\ \A i \in 1..n : d[i].stored \/ Len(d[i].chain) = 2
        /\ routes = [i \in 1..n |-> DrawnRoute(d[i], i)]
        /\ heap = [h \in Refs |-> IF h <= n /\ d[h].stored THEN d[h].chain
                                  ELSE <<>>]
        /\ last = Call("init", 0, 0, 0, "ok", 0)
        /\ project_routes = 1..n
        /\ route_groups = <<>>
        /\ route_group_names = <<>>
        /\ routes_selected_for_group = {}
        /\ PlacedSystems(u)
        /\ route_items = [i \in 1..n |->
                             recompute_path(routes[i], heap, system_items)]
        /\ file = save_project(routes, heap, project_routes, route_groups,
                               route_group_names, system_items)
        /\ RoutesView

\* one route object edited in place
EditNext ==
    \/ CreateNew(Single)
    \/ SetSystemChain(Single)
    \/ InsertSystemAt(Single)
    \/ RemoveSystemAt(Single)
    \/ RemoveSystemById(Single)

EditSpec == Init /\ [][EditNext]_vars

\* splits of one drawn route and of its parts
SplitInit == InitDrawn(Drawn, 1)

SplitNext == SplitAtSystem(Drawn) \/ SplitAtIndex(Drawn)

SplitSpec == SplitInit /\ [][SplitNext]_vars

\* merges of two drawn routes
MergeInit == InitDrawn(Pair, 2)

MergeNext == MergeRoutes(Pair)

MergeSpec == MergeInit /\ [][MergeNext]_vars

\* merges of two drawn routes over more systems
WideInit == InitDrawn(Wide, 2)

WideNext == MergeRoutes(Wide)

MergeWideSpec == WideInit /\ [][WideNext]_vars

\* two drawn routes are split or merged, and all routes are then edited in
\* place
OwnInit == InitDrawn(Owned, 2)

OwnNext ==
    \/ SplitAtSystem(Owned)
    \/ MergeRoutes(Owned)
    \/ InsertSystemAt(Owned)
    \/ RemoveSystemAt(Owned)
    \/ RemoveSystemById(Owned)

OwnSpec == OwnInit /\ [][OwnNext]_vars

\* two routes of an opened project are CTRL+clicked and merged, by the
\* editor and by a direct call
AskInit == InitProject(Asked, 2)

AskNext ==
    \/ ToggleRouteForGroup(Asked)
    \/ MergeSelectedRoutes(Asked)
    \/ MergeRoutes(Asked)

AskSpec == AskInit /\ [][AskNext]_vars

\* routes are drawn click by click while the mode of the editor changes
ModeNext == SetMode(Sketch) \/ MousePressEvent(Sketch)

ModeSpec == InitEditor(Sketch) /\ [][ModeNext]_vars

\* the systems placed in the scene: any of the systems, anywhere on the grid
Placements(u) == UNION {[S -> Grid] : S \in SUBSET u.sys}

\* one route item in a scene; its constructor builds the path
InitScene(u) ==
    \E d \in Draws(u), items \in Placements(u) :
        /\ d.stored \/ Len(d.chain) = 2
        /\ routes = <<DrawnRoute(d, 1)>>
        /\ heap = [h \in Refs |-> IF h = 1 /\ d.stored THEN d.chain ELSE <<>>]
        /\ last = Call("init", 0, 0, 0, "ok", 0)
        /\ NewProject
        /\ system_items = items
        /\ path = recompute_path(DrawnRoute(d, 1), heap, items)
        /\ closest_segment = NoSegment
        /\ RoutesView

\* the path of a route item is built
PathInit == InitScene(Paths)

PathNext == RecomputePath(Paths)

PathSpec == PathInit /\ [][PathNext]_vars

\* the segments of a route item are queried
HitInit == InitScene(Hits)

HitNext == GetSegmentAtPoint(Hits)

HitSpec == HitInit /\ [][HitNext]_vars

\* an editor session on a new project: routes are drawn, edited, split and
\* merged
EditorNext ==
    \/ HandleFinishRouteDrawing(Editor)
    \/ ToggleRouteForGroup(Editor)
    \/ InsertSystemIntoRoute(Editor)
    \/ MergeSelectedRoutes(Editor)

EditorSpec == InitEditor(Editor) /\ [][EditorNext]_vars

\* routes are drawn with shape points; systems are put into them and taken
\* out again
ShapeNext ==
    \/ HandleFinishRouteDrawing(Shaped)
    \/ InsertSystemIntoRoute(Shaped)
    \/ InsertSystemIntoSegment(Shaped)
    \/ RemoveSystemFromRoute(Shaped)

ShapeSpec == InitEditor(Shaped) /\ [][ShapeNext]_vars

\* an editor session on an opened project with one route: projects are made,
\* saved and opened while routes are drawn, deleted, split and merged
ItemNext ==
    \/ NewProjectMenu(Items)
    \/ SaveProject(Items)
    \/ OpenProject(Items)
    \/ HandleFinishRouteDrawing(Items)
    \/ HandleRouteDeleteRequest(Items)
    \/ KeyPressEvent(Items)
    \/ ToggleRouteForGroup(Items)
    \/ SplitRouteAtSystem(Items)
    \/ MergeSelectedRoutes(Items)

ItemInit == InitProject(Items, 1)

ItemSpec == ItemInit /\ [][ItemNext]_vars

\* an opened project with one route is saved and opened again while a route
\* is drawn, routes are grouped and systems are deleted
IoInit == InitProject(Filed, 1)

IoNext ==
    \/ SaveProject(Filed)
    \/ OpenProject(Filed)
    \/ SetMode(Filed)
    \/ HandleFinishRouteDrawing(Filed)
    \/ ToggleRouteForGroup(Filed)
    \/ CreateRouteGroupDialog(Filed)
    \/ RemoveSystem(Filed)

IoSpec == IoInit /\ [][IoNext]_vars

\* routes are drawn and edited while systems are dragged and deleted
StageNext ==
    \/ SetMode(Stage)
    \/ HandleFinishRouteDrawing(Stage)
    \/ InsertSystemIntoRoute(Stage)
    \/ RemoveSystemFromRoute(Stage)
    \/ SplitRouteAtSystem(Stage)
    \/ OnItemModified(Stage)
    \/ RemoveSystem(Stage)

StageSpec == InitEditor(Stage) /\ [][StageNext]_vars

\* an editor session on a new project: routes are drawn, grouped, merged and
\* deleted
GroupNext ==
    \/ HandleFinishRouteDrawing(Editor)
    \/ ToggleRouteForGroup(Editor)
    \/ CreateRouteGroupDialog(Editor)
    \/ HandleRouteDeleteRequest(Editor)
    \/ KeyPressEvent(Editor)
    \/ MergeSelectedRoutes(Editor)

GroupSpec == InitEditor(Editor) /\ [][GroupNext]_vars

\* ------------------------------------------------------------- properties
\* the chain of route i after the step
ChainAfter(i) == get_system_chain(routes'[i], heap')

Occurs(c, x) == \E i \in 1..Len(c) : c[i] = x

Count(c, x) == Cardinality({i \in 1..Len(c) : c[i] = x})

\* 1-based position of the first x in c
FirstAt(c, x) == CHOOSE i \in 1..Len(c) : c[i] = x /\ \A j \in 1..(i - 1) : c[j] # x

First(c) == c[1]

Last(c) == c[Len(c)]

IsSplit(call) == call.op \in {"split_at_system", "split_at_index"}

\* C1: in an editing session every route, whether created, split off or
\* merged, has a chain of at least two waypoints after every call, and a call
\* that would take a chain below two (remove on a two-waypoint chain,
\* set_system_chain with fewer than two ids) fails and changes nothing.
C1_ChainMinimum ==
    [][/\ \A r \in 1..Len(routes') :
            /\ Len(ChainAfter(r)) >= 2
            /\ routes'[r].system_chain # None
                  => Len(heap'[routes'[r].system_chain]) >= 2
       /\ last'.op = "remove_system_at" /\ Len(Chain(last'.r)) = 2
            => last'.ret = "ValueError" /\ UNCHANGED <<routes, heap>>
       /\ last'.op = "remove_system_by_id" /\ Len(Chain(last'.r)) = 2
            /\ Occurs(Chain(last'.r), last'.arg)
            => last'.ret = "ValueError" /\ UNCHANGED <<routes, heap>>
       /\ last'.op = "set_system_chain" /\ last'.arg < 2
            => last'.ret = "ValueError" /\ UNCHANGED <<routes, heap>>
       /\ last'.ret \in {"ValueError", "IndexError", "None", "return"}
            => UNCHANGED <<routes, heap>>]_vars

\* a removal was refused on the two-waypoint first half of a split
C1_Witness ==
    /\ Len(routes) = 2
    /\ routes[2].system_chain # None
    /\ last.op = "remove_system_at"
    /\ last.ret = "ValueError"
    /\ Len(Chain(last.r)) = 2
    /\ Last(Chain(1)) = First(Chain(2))

\* C2: split_at_system with the first id of the chain, with its last id, or
\* with an id that is not in the chain returns None and leaves the route as
\* it was, for any chain, repeated ids included.
C2_SplitAtEdgesFails ==
    [][last'.op = "split_at_system"
       /\ \/ last'.arg = First(Chain(last'.r))
          \/ last'.arg = Last(Chain(last'.r))
          \/ ~Occurs(Chain(last'.r), last'.arg)
       => last'.ret = "None" /\ UNCHANGED <<routes, heap>>]_vars

\* C3 as stated: remove_system_by_id on a two-waypoint chain fails with
\* ValueError for every id, in the chain or not, and changes nothing.
C3_AlwaysValueError ==
    [][last'.op = "remove_system_by_id" /\ Len(Chain(last'.r)) = 2
       => last'.ret = "ValueError" /\ UNCHANGED <<routes, heap>>]_vars

\* C3 amended: on a two-waypoint chain remove_system_by_id fails with
\* ValueError when the id occurs in the chain and returns without raising
\* when it does not; either way chain, start and end are unchanged.
C3_ValueErrorWhenPresent ==
    [][last'.op = "remove_system_by_id" /\ Len(Chain(last'.r)) = 2
       => /\ Occurs(Chain(last'.r), last'.arg) => last'.ret = "ValueError"
          /\ ~Occurs(Chain(last'.r), last'.arg) => last'.ret = "return"
          /\ UNCHANGED <<routes, heap>>]_vars

\* removal of a waypoint of a two-waypoint chain was refused
C3_Witness ==
    /\ last.op = "remove_system_by_id"
    /\ last.ret = "ValueError"
    /\ Len(Chain(last.r)) = 2
    /\ Occurs(Chain(last.r), last.arg)

\* C4: remove_system_by_id with an id that is not in the chain returns
\* without raising and changes nothing, whatever the chain length; and once
\* it has removed an id that occurred once, the id is no longer in the chain,
\* so a second removal of it is that no-op.
C4_AbsentIdIsNoOp ==
    [][last'.op = "remove_system_by_id"
       => /\ ~Occurs(Chain(last'.r), last'.arg)
               => last'.ret = "return" /\ UNCHANGED <<routes, heap>>
          /\ last'.ret = "ok" /\ Count(Chain(last'.r), last'.arg) = 1
               => ~Occurs(ChainAfter(last'.r), last'.arg)]_vars

\* the second removal of an id: it is absent, the chain has two waypoints
\* left, and the call returned silently
C4_Witness ==
    /\ last.op = "remove_system_by_id"
    /\ last.ret = "return"
    /\ ~Occurs(Chain(last.r), last.arg)
    /\ routes[last.r].system_chain # None
    /\ Len(Chain(last.r)) = 2

C6_Expected(a, b) ==
    IF Last(a) = First(b) THEN a \o Tail(b)
    ELSE IF Last(a) = Last(b) THEN a \o Tail(Reverse(b))
    ELSE IF First(a) = Last(b) THEN b \o Tail(a)
    ELSE IF First(a) = First(b) THEN Reverse(Tail(b)) \o a
    ELSE <<>>

\* C6: the chain of a merged route is the one given by the first matching
\* endpoint pair in the order end-start, end-end, start-end, start-start.
C6_FirstMatchWins ==
    last.op = "merge_routes" /\ last.ret = "route"
    => Chain(last.new) = C6_Expected(Chain(last.r), Chain(last.r2))

\* the end-to-start and the start-to-end pair match at once and would give
\* different chains
C6_Witness ==
    /\ last.op = "merge_routes"
    /\ last.ret = "route"
    /\ Last(Chain(last.r)) = First(Chain(last.r2))
    /\ First(Chain(last.r)) = Last(Chain(last.r2))
    /\ Chain(last.r) \o Tail(Chain(last.r2))
          # Chain(last.r2) \o Tail(Chain(last.r))
    /\ Len(Chain(last.r2)) = 3
    /\ Chain(last.new) = Chain(last.r) \o Tail(Chain(last.r2))

\* C7: after a successful split, merging the original with the returned
\* route gives the chain the original had before the split.
C7_SplitThenMerge ==
    [][IsSplit(last') /\ last'.ret = "route"
       => MergedChain(ChainAfter(last'.r), ChainAfter(last'.new))
             = Chain(last'.r)]_vars

\* a closed loop was split: the first half starts where the second ends
C7_Witness ==
    /\ IsSplit(last)
    /\ last.ret = "route"
    /\ First(Chain(last.r)) = Last(Chain(last.new))
    /\ Len(Chain(last.new)) >= 3
    /\ MergedChain(Chain(last.r), Chain(last.new))
          = Chain(last.r) \o Tail(Chain(last.new))

Ids(c) == {c[i] : i \in 1..Len(c)}

Ends(c) == {First(c), Last(c)}

\* p and q have one waypoint in common and it is an endpoint of both
ShareOneEndpoint(p, q) ==
    /\ Cardinality(Ids(p) \cap Ids(q)) = 1
    /\ Ids(p) \cap Ids(q) \subseteq (Ends(p) \cap Ends(q))

\* ... and it occurs once in each chain
ShareOneEndpointOnce(p, q) ==
    /\ ShareOneEndpoint(p, q)
    /\ \A z \in Ids(p) \cap Ids(q) : Count(p, z) = 1 /\ Count(q, z) = 1

\* merging p and q in all four orientations gives the path m or its reverse,
\* of length len(p) + len(q) - 1, holding the shared waypoint once
SamePath(p, q, m) ==
    /\ Len(m) = Len(p) + Len(q) - 1
    /\ \A z \in Ids(p) \cap Ids(q) : Count(m, z) = 1
    /\ \A pp \in {p, Reverse(p)}, qq \in {q, Reverse(q)} :
          MergedChain(pp, qq) \in {m, Reverse(m)}

\* C8 as stated: two chains that share exactly one endpoint waypoint and no
\* other waypoint merge, in every orientation, to the same path up to
\* reversal, with the shared waypoint in it once.
C8_OrientationsAgree ==
    last.op = "merge_routes" /\ ShareOneEndpoint(Chain(last.r), Chain(last.r2))
    => /\ last.ret = "route"
       /\ SamePath(Chain(last.r), Chain(last.r2), Chain(last.new))

\* C8 amended: the same, for chains in each of which the shared waypoint
\* occurs only once.
C8_OrientationsAgreeOnce ==
    last.op = "merge_routes"
    /\ ShareOneEndpointOnce(Chain(last.r), Chain(last.r2))
    => /\ last.ret = "route"
       /\ SamePath(Chain(last.r), Chain(last.r2), Chain(last.new))

\* a three-waypoint chain merged with a chain that ends where it ends, so
\* that the second one is reversed
C8_Witness ==
    /\ last.op = "merge_routes"
    /\ last.ret = "route"
    /\ ShareOneEndpointOnce(Chain(last.r), Chain(last.r2))
    /\ Len(Chain(last.r)) = 3
    /\ Last(Chain(last.r)) = Last(Chain(last.r2))
    /\ Cardinality(Ids(Chain(last.new))) = 4

NoEndpointPair(a, b) ==
    /\ Last(a) # First(b)
    /\ Last(a) # Last(b)
    /\ First(a) # Last(b)
    /\ First(a) # First(b)

\* C9: merge_routes returns None exactly when none of the four endpoint
\* pairs coincide, and then creates no route and changes nothing.
C9_NoneIffNoPair ==
    [][last'.op = "merge_routes"
       => /\ last'.ret = "None"
               <=> NoEndpointPair(Chain(last'.r), Chain(last'.r2))
          /\ last'.ret = "None" => UNCHANGED <<routes, heap>>
          /\ last'.ret \in {"None", "route"}]_vars

\* two routes with no common endpoint were offered and nothing was created
C9_Witness ==
    /\ last.op = "merge_routes"
    /\ last.ret = "None"
    /\ last.r # last.r2
    /\ NoEndpointPair(Chain(last.r), Chain(last.r2))
    /\ Ids(Chain(last.r)) \cap Ids(Chain(last.r2)) # {}
    /\ Len(routes) = 2

\* C10: after a successful split neither half has control points.
C10_SplitDiscardsShape ==
    IsSplit(last) /\ last.ret = "route"
    => /\ routes[last.r].control_points = <<>>
       /\ routes[last.new].control_points = <<>>

\* the groups that list route id
Listing(groups, id) == {g \in DOMAIN groups : Occurs(groups[g], id)}

\* C11: in every state of an editor session every id in every route group
\* names a route the project still has, and no group is without members.
C11_GroupsNameRoutes ==
    \A g \in DOMAIN route_groups :
        /\ Len(route_groups[g]) > 0
        /\ \A i \in 1..Len(route_groups[g]) : route_groups[g][i] \in project_routes

\* C12: a confirmed route delete request removes the route from the project
\* and from every group that lists it; a group whose sole member it was is
\* removed, a group with other members stays with exactly those, in their
\* order, and the groups that did not list it are unchanged; no group appears.
C12_DeleteRequestPurgesGroups ==
    [][last'.op = "handle_route_delete_request"
       => LET id == last'.r
          IN  /\ id \in project_routes
              /\ project_routes' = project_routes \ {id}
              /\ DOMAIN route_groups' \subseteq DOMAIN route_groups
              /\ \A g \in DOMAIN route_groups :
                    IF g \notin Listing(route_groups, id)
                    THEN /\ g \in DOMAIN route_groups'
                         /\ route_groups'[g] = route_groups[g]
                    ELSE IF Len(route_groups[g]) = 1
                    THEN g \notin DOMAIN route_groups'
                    ELSE /\ g \in DOMAIN route_groups'
                         /\ ~Occurs(route_groups'[g], id)
                         /\ route_groups'[g]
                               = SelectSeq(route_groups[g], LAMBDA x : x # id)]_vars

\* the deleted route was the sole member of one group and one of two members
\* of another: one group is left, holding the other route, which the project
\* still has
C12_Witness ==
    /\ last.op = "handle_route_delete_request"
    /\ DOMAIN route_groups = {2}
    /\ Len(route_groups[2]) = 1
    /\ route_groups[2][1] \in project_routes
    /\ route_groups[2][1] # last.r
    /\ last.arg = 2

\* C13: in every state of an editor session no route of the project has a
\* chain that holds the same waypoint twice.
C13_NoRepeatedWaypoint ==
    \A r \in project_routes :
        \A i, j \in 1..Len(Chain(r)) : Chain(r)[i] = Chain(r)[j] => i = j

IsEdit(call) ==
    call.op \in {"insert_system_at", "remove_system_at", "remove_system_by_id"}

\* C14: no two routes hold the same list, and an insert or removal on one
\* route, the routes made by split_at_system and merge_routes and their
\* inputs included, leaves every other route and its chain as they were.
C14_ChainsNotShared ==
    [][/\ \A i, j \in 1..Len(routes') :
            i # j /\ routes'[i].system_chain # None
               => routes'[i].system_chain # routes'[j].system_chain
       /\ IsEdit(last')
            => \A j \in (1..Len(routes)) \ {last'.r} :
                  /\ routes'[j] = routes[j]
                  /\ ChainAfter(j) = Chain(j)]_vars

\* the third route came from a split or a merge; a later edit changed one
\* of the routes it came from, whose chain is now different from its own
C14_Witness ==
    /\ Len(routes) = 3
    /\ IsEdit(last)
    /\ last.ret = "ok"
    /\ last.r \in {1, 2}
    /\ routes[3].system_chain # None
    /\ Len(Chain(3)) = 3
    /\ Len(Chain(last.r)) = 3
    /\ Chain(3) # Chain(last.r)

Failed(call) == call.ret \in {"ValueError", "IndexError", "None", "return"}

\* C15: after every call of set_system_chain, insert_system_at,
\* remove_system_at, remove_system_by_id, split_at_system, split_at_index and
\* merge_routes every route, the ones the call changed or made included, has
\* start_system_id = chain[0] and end_system_id = chain[-1], also for the
\* stored list itself; a failed call leaves every route's start and end as
\* they were.
C15_EndpointsFollowChain ==
    [][/\ \A r \in 1..Len(routes') :
            /\ routes'[r].start_system_id = First(ChainAfter(r))
            /\ routes'[r].end_system_id = Last(ChainAfter(r))
            /\ routes'[r].system_chain # None
                  => /\ Len(heap'[routes'[r].system_chain]) >= 2
                     /\ routes'[r].start_system_id
                           = First(heap'[routes'[r].system_chain])
                     /\ routes'[r].end_system_id
                           = Last(heap'[routes'[r].system_chain])
       /\ Failed(last')
            => /\ Len(routes') = Len(routes)
               /\ \A r \in 1..Len(routes) :
                     /\ routes'[r].start_system_id = routes[r].start_system_id
                     /\ routes'[r].end_system_id = routes[r].end_system_id]_vars

\* an insert at the end of the chain gave the route a new end
C15_Witness ==
    /\ last.op = "insert_system_at"
    /\ last.ret = "ok"
    /\ last.r2 = Len(Chain(last.r)) - 1
    /\ Len(Chain(last.r)) = 3
    /\ Chain(last.r)[2] # last.arg
    /\ routes[last.r].end_system_id = last.arg
    /\ routes[last.r].start_system_id # last.arg

\* the route item whose path was built, its chain and its shape points
Built == routes[last.r]

BuiltChain == Chain(last.r)

\* the position of the i-th waypoint of the built route
PosOf(i) == system_items[BuiltChain[i]]

AllResolved == \A i \in 1..Len(BuiltChain) : BuiltChain[i] \in DOMAIN system_items

\* the points the path visits, in order
Vertices(pth) == [i \in 1..Len(pth) |-> pth[i].to]

\* C16: for a route of more than two waypoints, all resolved, the built path
\* is the polyline through the waypoint positions in chain order: a move to
\* the first and a line to each of the others; shape points add nothing.
C16_ChainRouteIsPolyline ==
    last.op = "recompute_path" /\ Len(BuiltChain) > 2 /\ AllResolved
    => /\ Len(path) = Len(BuiltChain)
       /\ path[1] = [cmd |-> "moveTo", to |-> PosOf(1)]
       /\ \A i \in 2..Len(path) : path[i] = [cmd |-> "lineTo", to |-> PosOf(i)]

\* a three-waypoint route with a shape point that is at none of its
\* waypoints, and a path that does not visit it
C16_Witness ==
    /\ last.op = "recompute_path"
    /\ Len(BuiltChain) = 3
    /\ AllResolved
    /\ Len(Built.control_points) > 0
    /\ \A i \in 1..3 : PosOf(i) # Built.control_points[1]
    /\ Len(path) = 3
    /\ \A i \in 1..3 : path[i].to # Built.control_points[1]

\* C17: for a two-waypoint route with both waypoints resolved and two or
\* more shape points the path starts at the start position, ends at the end
\* position and visits every shape point, in stored order, in between; with
\* no shape points it is the one straight segment from start to end.
C17_ThroughShapePoints ==
    last.op = "recompute_path" /\ Len(BuiltChain) = 2 /\ AllResolved
    => /\ Len(Built.control_points) >= 2
            => /\ Vertices(path)
                     = <<PosOf(1)>> \o Built.control_points \o <<PosOf(2)>>
               /\ path[1].cmd = "moveTo"
       /\ Len(Built.control_points) = 0
            => path = <<[cmd |-> "moveTo", to |-> PosOf(1)],
                        [cmd |-> "lineTo", to |-> PosOf(2)]>>

\* two different shape points between two different positions
C17_Witness ==
    /\ last.op = "recompute_path"
    /\ Len(BuiltChain) = 2
    /\ AllResolved
    /\ Len(Built.control_points) = 2
    /\ Built.control_points[1] # Built.control_points[2]
    /\ PosOf(1) # PosOf(2)
    /\ Len(path) = 4
    /\ path[2].to = Built.control_points[1]
    /\ path[3].to = Built.control_points[2]

C19_UnresolvedGivesEmptyPath ==
    last.op = "recompute_path" /\ ~AllResolved => path = <<>>

\* only the middle waypoint of a route with shape points is missing
C19_Witness ==
    /\ last.op = "recompute_path"
    /\ Len(BuiltChain) = 3
    /\ BuiltChain[1] \in DOMAIN system_items
    /\ BuiltChain[3] \in DOMAIN system_items
    /\ BuiltChain[2] \notin DOMAIN system_items
    /\ Len(Built.control_points) > 0
    /\ path = <<>>

\* the distance from the queried point to segment i (counted from 1) of the
\* queried route
SegDist(i) == point_to_segment_distance(last.arg, PosOf(i), PosOf(i + 1))

Segments == 1..(Len(BuiltChain) - 1)

\* C20: get_segment_at_point returns None when a waypoint of the chain is
\* unresolved or when every segment is farther than the threshold; otherwise
\* it returns (i, chain[i], chain[i+1]) for the lowest i among the segments
\* at the minimum distance, a distance equal to the threshold counting as a
\* hit.
C20_NearestSegment ==
    last.op = "get_segment_at_point"
    => IF ~AllResolved
          \/ \A i \in Segments : ~WithinThreshold(SegDist(i), last.r2)
       THEN closest_segment = <<>>
       ELSE \E i \in Segments :
               /\ closest_segment = <<i - 1, BuiltChain[i], BuiltChain[i + 1]>>
               /\ \A j \in Segments : ~Less(SegDist(j), SegDist(i))
               /\ \A j \in Segments : j < i => Less(SegDist(i), SegDist(j))

\* both segments are exactly at the threshold from the point, and the first
\* is returned
C20_Witness ==
    /\ last.op = "get_segment_at_point"
    /\ Len(BuiltChain) = 3
    /\ AllResolved
    /\ last.r2 >= 1
    /\ SegDist(1)[1] = Sq(last.r2) * SegDist(1)[2]
    /\ SegDist(2)[1] = Sq(last.r2) * SegDist(2)[2]
    /\ PosOf(1) # PosOf(2)
    /\ PosOf(2) # PosOf(3)
    /\ PosOf(1) # PosOf(3)
    /\ closest_segment = <<0, BuiltChain[1], BuiltChain[2]>>

\* C22: for 0 <= i <= len(chain), insert_system_at(i, id) succeeds and gives
\* chain[0..i-1] + [id] + chain[i..]: one waypoint more, id at position i,
\* the others in their order, start and end following the new chain ends;
\* also on a route whose chain is still the implicit [start, end].
C22_InsertAtIndex ==
    [][last'.op = "insert_system_at"
       /\ last'.r2 >= 0 /\ last'.r2 <= Len(Chain(last'.r))
       => LET c == Chain(last'.r)
              d == ChainAfter(last'.r)
              i == last'.r2
          IN  /\ last'.ret = "ok"
              /\ Len(d) = Len(c) + 1
              /\ d[i + 1] = last'.arg
              /\ \A j \in 1..i : d[j] = c[j]
              /\ \A j \in (i + 1)..Len(c) : d[j + 1] = c[j]
              /\ routes'[last'.r].system_chain # None]_vars

\* an id was inserted in the middle of a three-waypoint chain
C22_Witness ==
    /\ last.op = "insert_system_at"
    /\ last.ret = "ok"
    /\ last.r2 = 2
    /\ Len(Chain(last.r)) = 4
    /\ Chain(last.r)[3] = last.arg
    /\ Chain(last.r)[2] # last.arg
    /\ Chain(last.r)[4] # last.arg

\* C26: on a chain of three or more waypoints that contains id,
\* remove_system_by_id(id) removes the first occurrence of id and nothing
\* else: the chain is one shorter, a later occurrence of id and all other
\* waypoints keep their order, and start and end are the new chain ends.
C26_RemovesFirstOccurrence ==
    [][last'.op = "remove_system_by_id"
       /\ Len(Chain(last'.r)) >= 3 /\ Occurs(Chain(last'.r), last'.arg)
       => LET c == Chain(last'.r)
              d == ChainAfter(last'.r)
              k == FirstAt(c, last'.arg)
          IN  /\ last'.ret = "ok"
              /\ Len(d) = Len(c) - 1
              /\ \A j \in 1..(k - 1) : d[j] = c[j]
              /\ \A j \in (k + 1)..Len(c) : d[j - 1] = c[j]
              /\ routes'[last'.r].start_system_id = First(d)
              /\ routes'[last'.r].end_system_id = Last(d)]_vars

\* the first of two occurrences was removed: the id is still in the chain,
\* now as its end
C26_Witness ==
    /\ last.op = "remove_system_by_id"
    /\ last.ret = "ok"
    /\ Len(Chain(last.r)) = 3
    /\ Count(Chain(last.r), last.arg) = 1
    /\ Last(Chain(last.r)) = last.arg
    /\ routes[last.r].end_system_id = last.arg

\* C27: for an interior index k, split_at_index(k) leaves this route with
\* chain[0..k] and returns a new route with chain[k..]; for k <= 0 or
\* k >= len(chain) - 1 it returns None and changes nothing.
C27_SplitsAtPosition ==
    [][last'.op = "split_at_index"
       => LET c == Chain(last'.r)
              k == last'.arg
          IN  IF 0 < k /\ k < Len(c) - 1
              THEN /\ last'.ret = "route"
                   /\ ChainAfter(last'.r) = SubSeq(c, 1, k + 1)
                   /\ ChainAfter(last'.new) = SubSeq(c, k + 1, Len(c))
              ELSE last'.ret = "None" /\ UNCHANGED <<routes, heap>>]_vars

\* route i is as it was before the step: fields and chain
Kept(i) == routes'[i] = routes[i] /\ ChainAfter(i) = Chain(i)

\* C29: merge_routes leaves both input routes unchanged (chain, start, end,
\* control points, name) whether it returns a merged route or None, and a
\* merge the user declines in the confirmation dialog leaves the routes of
\* the project as they were.
C29_MergeKeepsInputs ==
    [][/\ last'.op = "merge_routes" => Kept(last'.r) /\ Kept(last'.r2)
       /\ last'.op = "merge_selected_routes" /\ last'.ret = "No"
            => /\ UNCHANGED <<routes, project_routes>>
               /\ \A i \in project_routes : ChainAfter(i) = Chain(i)]_vars

\* two routes with shape points and stored chains that can be merged were
\* selected, and the merge was declined
C29_Witness ==
    /\ last.op = "merge_selected_routes"
    /\ last.ret = "No"
    /\ project_routes = {1, 2}
    /\ \A i \in {1, 2} :
          /\ routes[i].system_chain # None
          /\ Len(routes[i].control_points) > 0
    /\ Len(Chain(1)) = 3

\* C28: whenever set_mode switches to a mode other than routes, no route
\* drawing is in progress afterwards: route_drawing_active is false and
\* there is no start system and no pending point, so that the next click on
\* a system in routes mode starts a new route.
C28_LeavingRoutesModeEndsDrawing ==
    [][last'.op = "set_mode" /\ current_mode' # "routes"
       => /\ ~route_drawing_active'
          /\ route_drawing_start_system_id' = None
          /\ route_drawing_points' = <<>>]_vars
\* C21: after an editor operation that changes a chain (insert, remove,
\* split) or the position or existence of a waypoint (a system dragged, a
\* system deleted), the path every route item shows is the path
\* recompute_path builds from the route and the systems as they are now
C21_NoStalePath ==
    \A k \in DOMAIN route_items :
        route_items[k] = recompute_path(routes[k], heap, system_items)

\* C25: in every state the editor reaches, a route of the project whose
\* chain has more than two waypoints has no shape points
C25_ChainRoutesHaveNoShapePoints ==
    \A r \in project_routes :
        Len(Chain(r)) > 2 => routes[r].control_points = <<>>

\* C30: in every state the editor reaches by new project, open project,
\* drawing, deleting (context menu or Delete key), splitting and merging, the
\* routes that have a scene item are the routes of the project, and every
\* key of project.routes is the id of the route stored under it
C30_ItemsMatchRoutes ==
    /\ DOMAIN route_items = project_routes
    /\ \A k \in project_routes : routes[k].id = k

\* a project with two routes, one made by a split or drawn after the project
\* was opened, was saved and opened again
C30_Witness ==
    /\ last.op = "open_project"
    /\ Cardinality(project_routes) = 2
    /\ DOMAIN route_items = project_routes

\* C23: after load_project every waypoint of every loaded route, each
\* element of its chain, is one of the loaded systems
C23_LoadedWaypointsExist ==
    last.op = "open_project"
        => \A k \in project_routes :
               \A i \in 1..Len(Chain(k)) : Chain(k)[i] \in DOMAIN system_items

\* the file is what save_project writes for the project as it is
FileIsSaved ==
    file = save_project(routes, heap, project_routes, route_groups,
                        route_group_names, system_items)

\* the start and the end system of every route of the project exist
EndpointsExist ==
    \A k \in project_routes :
        /\ routes[k].start_system_id \in DOMAIN system_items
        /\ routes[k].end_system_id \in DOMAIN system_items

\* route k is after the step what it was before it, field by field
SameRoute(k) ==
    /\ routes'[k].id = routes[k].id
    /\ routes'[k].name = routes[k].name
    /\ routes'[k].start_system_id = routes[k].start_system_id
    /\ routes'[k].end_system_id = routes[k].end_system_id
    /\ routes'[k].control_points = routes[k].control_points
    /\ (routes'[k].system_chain = None) = (routes[k].system_chain = None)
    /\ routes[k].system_chain # None
          => heap'[routes'[k].system_chain] = heap[routes[k].system_chain]

\* C24: when the start and end systems of every route exist, opening the
\* file save_project wrote for the project gives the same routes, equal in
\* id, name, start, end, control points and system chain, and the same
\* route groups, equal in id, name and route ids
C24_SaveLoadRoundTrip ==
    [][last'.op = "open_project" /\ FileIsSaved /\ EndpointsExist
       => /\ project_routes' = project_routes
          /\ \A k \in project_routes : SameRoute(k)
          /\ route_groups' = route_groups
          /\ route_group_names' = route_group_names]_vars

\* a saved project was opened: two routes, one with a shape point and one
\* with a stored chain of three waypoints, in one group
C24_Witness ==
    /\ last.op = "open_project"
    /\ FileIsSaved
    /\ EndpointsExist
    /\ Cardinality(project_routes) = 2
    /\ \E k \in project_routes : Len(routes[k].control_points) > 0
    /\ \E k \in project_routes :
          routes[k].system_chain # None /\ Len(Chain(k)) = 3
    /\ \E g \in DOMAIN route_groups : Len(route_groups[g]) = 2

====
